---- MODULE Spec2Model ----
(***************************************************************************)
(* The Equation widget of src/app/(home)/components/Equation/Equation.tsx: *)
(* a React function component with two useState cells (leftCount,          *)
(* middleCount), two useCallback cells (updateLeftCount,                   *)
(* updateMiddleCount) and a derived totalCount.  The committed output of   *)
(* the last render is the variable view: the three displayed numbers and   *)
(* the click listeners attached to the left and middle boxes.              *)
(*                                                                         *)
(* A click is a discrete event: the listener found in the committed view   *)
(* runs, and the state update it schedules is rendered and committed       *)
(* before the next event is dispatched.                                    *)
(***************************************************************************)
EXTENDS Integers, Sequences, FiniteSets, TLC

\* Bounds of the exploration
MaxCount == 4
MaxIdle == 2

VARIABLES
    leftCount,     \* useState cell, Equation.tsx:7
    middleCount,   \* useState cell, Equation.tsx:8
    leftMemo,      \* useCallback cell of updateLeftCount, Equation.tsx:10-12
    middleMemo,    \* useCallback cell of updateMiddleCount, Equation.tsx:14-16
    view,          \* committed output of the last render, Equation.tsx:20-31
    clicks,        \* history: the clicks dispatched so far, in order
    idle           \* history: renders since the last click (or since mount)

vars == <<leftCount, middleCount, leftMemo, middleMemo, view, clicks, idle>>

\* ---------------------------------------------------------------------
\* Hooks

\* useState<number>(0), line 7
initialLeftCount == 0

\* useState<number>(0), line 8
initialMiddleCount == 0

\* The two useState cells as one value
State == [leftCount |-> leftCount, middleCount |-> middleCount]

\* A hook cell before the component has mounted
Unmounted == [mounted |-> FALSE, fn |-> [cap |-> 0, id |-> 0], deps |-> <<>>]

\* useCallback(fn, deps): the memoised function is kept while deps are
\* unchanged, otherwise the function created by this render replaces it.
\* A function is the value it closed over (cap) and its identity (id).
useCallbackEmptyDeps(memo, cap, deps) ==
    IF memo.mounted
    THEN memo
    ELSE [mounted |-> TRUE, fn |-> [cap |-> cap, id |-> memo.fn.id + 1], deps |-> deps]

useCallback(memo, cap, deps) ==
    IF memo.mounted /\ memo.deps = deps
    THEN memo
    ELSE [mounted |-> TRUE, fn |-> [cap |-> cap, id |-> memo.fn.id + 1], deps |-> deps]

\* setLeftCount(v) / setMiddleCount(v): the setters returned by useState
setLeftCountWrongCell(st, v) == [st EXCEPT !.middleCount = v]
setLeftCount(st, v) == [st EXCEPT !.leftCount = v]

setMiddleCount(st, v) == [st EXCEPT !.middleCount = v]

\* ---------------------------------------------------------------------
\* The component

\* () => { setLeftCount(leftCount + 1); }   with leftCount closed over
updateLeftCountDecrement(fn, st) == setLeftCount(st, fn.cap - 1)
updateLeftCount(fn, st) == setLeftCount(st, fn.cap + 1)

\* () => { setMiddleCount(middleCount + 1); }   with middleCount closed over
updateMiddleCount(fn, st) == setMiddleCount(st, fn.cap + 1)

\* const totalCount = leftCount + middleCount;
totalCountLeftOnly(l, m) == l
totalCount(l, m) == l + m

\* The returned element tree: what each box shows and which listeners are
\* attached to the click of the left and of the middle box.
ElementsNoListenerAfterTwo(l, m, onLeft, onMiddle) ==
    [left |-> l, middle |-> m, total |-> totalCount(l, m),
     onLeft |-> IF l < 2 THEN {onLeft} ELSE {}, onMiddle |-> {onMiddle}]

Elements(l, m, onLeft, onMiddle) ==
    [left |-> l, middle |-> m, total |-> totalCount(l, m),
     onLeft |-> {onLeft}, onMiddle |-> {onMiddle}]

\* One call of Equation() against the hook cells: the new useCallback
\* cells and the element tree it returns.
Equation(st, lm, mm) ==
    LET l == st.leftCount
        m == st.middleCount
        lcb == useCallback(lm, l, <<l>>)
        mcb == useCallback(mm, m, <<m>>)
    IN  [leftMemo |-> lcb, middleMemo |-> mcb,
         view |-> Elements(l, m, lcb.fn, mcb.fn)]

\* ---------------------------------------------------------------------
\* History helpers

RECURSIVE CountOf(_, _)
CountOf(s, r) ==
    IF s = <<>> THEN 0
    ELSE (IF s[1].region = r THEN 1 ELSE 0) + CountOf(Tail(s), r)

nLeft == CountOf(clicks, "left")
nMiddle == CountOf(clicks, "middle")

\* ---------------------------------------------------------------------
\* Behaviour

Mount == Equation([leftCount |-> initialLeftCount, middleCount |-> initialMiddleCount],
                  Unmounted, Unmounted)

\* The state after the first render: useState stores its argument, the
\* useCallback cells and the committed view are those of the first call.
InitLeftStartsAtOne ==
    LET r == Equation([leftCount |-> initialLeftCount + 1, middleCount |-> initialMiddleCount],
                      Unmounted, Unmounted)
    IN  /\ leftCount = initialLeftCount + 1
        /\ middleCount = initialMiddleCount
        /\ leftMemo = r.leftMemo
        /\ middleMemo = r.middleMemo
        /\ view = r.view
        /\ clicks = <<>>
        /\ idle = 0

Init ==
    /\ leftCount = initialLeftCount
    /\ middleCount = initialMiddleCount
    /\ leftMemo = Mount.leftMemo
    /\ middleMemo = Mount.middleMemo
    /\ view = Mount.view
    /\ clicks = <<>>
    /\ idle = 0

\* The state update scheduled by a listener is applied; an update to the
\* value already stored bails out, any other re-renders and commits.
CommitNoRender(st2) ==
    /\ leftCount' = st2.leftCount
    /\ middleCount' = st2.middleCount
    /\ UNCHANGED <<leftMemo, middleMemo, view>>

Commit(st2) ==
    /\ leftCount' = st2.leftCount
    /\ middleCount' = st2.middleCount
    /\ IF st2 = State
       THEN UNCHANGED <<leftMemo, middleMemo, view>>
       ELSE LET r == Equation(st2, leftMemo, middleMemo)
            IN  /\ leftMemo' = r.leftMemo
                /\ middleMemo' = r.middleMemo
                /\ view' = r.view

\* A click on <div className="sample-box-left" onClick={updateLeftCount}>
ClickLeft ==
    /\ nLeft < MaxCount
    /\ \E fn \in view.onLeft :
          LET st2 == updateLeftCount(fn, State)
          IN  /\ Commit(st2)
              /\ clicks' = Append(clicks,
                     [region |-> "left", fn |-> fn.id, cap |-> fn.cap,
                      stored |-> leftCount, wrote |-> st2.leftCount])
    /\ idle' = 0

\* A click on <div className="sample-box-middle" onClick={updateMiddleCount}>
ClickMiddle ==
    /\ nMiddle < MaxCount
    /\ \E fn \in view.onMiddle :
          LET st2 == updateMiddleCount(fn, State)
          IN  /\ Commit(st2)
              /\ clicks' = Append(clicks,
                     [region |-> "middle", fn |-> fn.id, cap |-> fn.cap,
                      stored |-> middleCount, wrote |-> st2.middleCount])
    /\ idle' = 0

\* Equation() is called again with no state update (its parent re-rendered)
RerenderImpure ==
    /\ idle < MaxIdle
    /\ LET st2 == setLeftCount(State, leftCount + 1)
           r == Equation(st2, leftMemo, middleMemo)
       IN  /\ leftCount' = st2.leftCount
           /\ middleCount' = st2.middleCount
           /\ leftMemo' = r.leftMemo
           /\ middleMemo' = r.middleMemo
           /\ view' = r.view
    /\ idle' = idle + 1
    /\ UNCHANGED clicks

Rerender ==
    /\ idle < MaxIdle
    /\ LET r == Equation(State, leftMemo, middleMemo)
       IN  /\ leftMemo' = r.leftMemo
           /\ middleMemo' = r.middleMemo
           /\ view' = r.view
    /\ idle' = idle + 1
    /\ UNCHANGED <<leftCount, middleCount, clicks>>

Next == ClickLeft \/ ClickMiddle \/ Rerender

Spec == Init /\ [][Next]_vars

\* ---------------------------------------------------------------------
\* Properties

\* A step that dispatched a click on the left / middle box, a step that
\* re-rendered without a click
LeftClickStep == clicks' # clicks /\ clicks'[Len(clicks')].region = "left"
MiddleClickStep == clicks' # clicks /\ clicks'[Len(clicks')].region = "middle"
RerenderStep == idle' = idle + 1

\* The clicks on one region, in order
RECURSIVE ClicksOn(_, _)
ClicksOn(s, r) ==
    IF s = <<>> THEN <<>>
    ELSE (IF s[1].region = r THEN <<s[1]>> ELSE <<>>) \o ClicksOn(Tail(s), r)

\* C1: in every reachable state the total shown in the right box is the sum
\* of the numbers shown in the left and middle boxes by that same render.
C1_TotalIsSumOfShown == view.total = view.left + view.middle

C1_Witness ==
    /\ nLeft >= 1 /\ nMiddle >= 1
    /\ view.left >= 1 /\ view.middle >= 1
    /\ view.total = view.left + view.middle

\* C2: after n left clicks and m middle clicks, in whatever order, the
\* counters are n and m and the widget shows n, m and n + m.
C2_CountsEqualClicks ==
    /\ leftCount = nLeft
    /\ middleCount = nMiddle
    /\ view.left = nLeft
    /\ view.middle = nMiddle
    /\ view.total = nLeft + nMiddle

C2_Witness ==
    /\ nLeft = 2 /\ nMiddle = 3
    /\ clicks[1].region = "middle" /\ clicks[Len(clicks)].region = "left"
    /\ view.left = 2 /\ view.middle = 3 /\ view.total = 5

\* C3: before any click the counters are 0 and 0 and the total shown is 0.
C3_InitialZero ==
    clicks = <<>> =>
        /\ leftCount = 0 /\ middleCount = 0
        /\ view.left = 0 /\ view.middle = 0 /\ view.total = 0

C3_Witness == clicks = <<>> /\ idle = 0 /\ view.total = 0

\* C4: every click on a region raises that region's counter by exactly one.
C4_ClickAddsOne ==
    [][/\ LeftClickStep => leftCount' = leftCount + 1
       /\ MiddleClickStep => middleCount' = middleCount + 1]_vars

C4_Witness ==
    /\ nLeft >= 2 /\ nMiddle >= 2
    /\ \A i \in 1..Len(clicks) : clicks[i].wrote = clicks[i].stored + 1

\* C5: a left click leaves the middle counter unchanged and a middle click
\* leaves the left counter unchanged.
C5_Independent ==
    [][/\ LeftClickStep => middleCount' = middleCount
       /\ MiddleClickStep => leftCount' = leftCount]_vars

C5_Witness ==
    /\ nLeft >= 1 /\ nMiddle >= 1
    /\ leftCount = nLeft /\ middleCount = nMiddle
    /\ leftCount # middleCount

\* C6: a render with no click changes neither counter and shows the same
\* three values as the render before it, which are (left, middle, left + middle).
C6_RenderPure ==
    [][RerenderStep =>
        /\ leftCount' = leftCount /\ middleCount' = middleCount
        /\ view'.left = view.left /\ view'.middle = view.middle
        /\ view'.total = view.total
        /\ view'.left = leftCount /\ view'.middle = middleCount
        /\ view'.total = leftCount + middleCount]_vars

C6_Witness == idle = MaxIdle /\ nLeft >= 1 /\ nMiddle >= 1

\* C7: both counters are non-negative in every state, no step lowers a
\* counter, and a counter changes only in a click step on its region.
C7_Monotone ==
    /\ [](leftCount >= 0 /\ middleCount >= 0)
    /\ [][/\ leftCount' >= leftCount /\ middleCount' >= middleCount
          /\ leftCount' # leftCount => LeftClickStep
          /\ middleCount' # middleCount => MiddleClickStep]_vars

C7_Witness == leftCount >= 2 /\ middleCount >= 2 /\ idle >= 1

\* C8: no reachable state is terminal: a left click and a middle click are
\* both possible in every state (up to the click bound of the exploration).
C8_AlwaysClickable ==
    /\ nLeft < MaxCount => ENABLED ClickLeft
    /\ nMiddle < MaxCount => ENABLED ClickMiddle

C8_Witness == nLeft = MaxCount - 1 /\ nMiddle = MaxCount - 1 /\ idle = MaxIdle

\* C9: at every click the listener's captured value equals the stored
\* counter, and two successive clicks on one region invoke different
\* functions and write different values, also when only clicks on the
\* other region came in between.
C9_NoStaleClosure ==
    /\ \A i \in 1..Len(clicks) :
          /\ clicks[i].cap = clicks[i].stored
          /\ clicks[i].wrote = clicks[i].cap + 1
    /\ \A r \in {"left", "middle"} :
          LET s == ClicksOn(clicks, r)
          IN  \A i \in 1..(Len(s) - 1) :
                  /\ s[i].fn # s[i + 1].fn
                  /\ s[i].wrote # s[i + 1].wrote

\* two left clicks with only a middle click in between, during which the
\* left listener was not re-created
C9_Witness ==
    \E i \in 1..(Len(clicks) - 2) :
        /\ clicks[i].region = "left"
        /\ clicks[i + 1].region = "middle"
        /\ clicks[i + 2].region = "left"
        /\ clicks[i + 2].fn = clicks[i].fn + 1

\* C10: whenever a click is handled the three values on display are the
\* stored left counter, the stored middle counter and their sum, and the
\* render that follows the click shows the updated counters.
ViewShowsState ==
    /\ view.left = leftCount
    /\ view.middle = middleCount
    /\ view.total = leftCount + middleCount

C10_DisplayCurrentAtClick ==
    [][LeftClickStep \/ MiddleClickStep => ViewShowsState /\ ViewShowsState']_vars

C10_Witness ==
    /\ Len(clicks) >= 3 /\ idle = 0
    /\ view.left = leftCount /\ view.middle = middleCount
    /\ view.total = leftCount + middleCount /\ view.total = Len(clicks)

====
